---------------------------- MODULE Spec2Model ----------------------------
(***************************************************************************)
(* Model of the customer churn dashboard (src/app.py).                     *)
(*                                                                         *)
(* The script is a Streamlit page: every widget interaction stores the     *)
(* widget's new value and reruns the whole script top to bottom in a fresh *)
(* namespace.  The only value that survives a rerun is the table cached by *)
(* load_data (st.cache_data) and the widgets' values.                      *)
(*                                                                         *)
(* Numbers: ChurnProbability is kept in hundredths (0.4 is 40, 0.05 is 5), *)
(* so the heuristic 0.4*a + 0.3*b - 0.05*k is 40*a + 30*b - 5*k.  Means    *)
(* are kept as exact fractions num/den, with a nan flag for the mean of    *)
(* zero values.                                                            *)
(***************************************************************************)
EXTENDS Integers, Sequences, FiniteSets

VARIABLES
    source,              \* contents of ChurnSpreadsheet.csv
    df,                  \* the table cached by load_data
    fresh,               \* TRUE until the first run has created the widgets
    pc,                  \* "rerun": a run is pending; "idle": the run is complete
    contract_filter,     \* value of the "Contract Type" multiselect
    gender_filter,       \* value of the "Gender" multiselect
    senior_filter,       \* value of the "Senior Citizen" multiselect
    top_n,               \* value of the slider
    filtered_pre,        \* filtered_df as built by lines 46-50
    filtered_df,         \* filtered_df after the scoring step, lines 90-96
    regenerated,         \* whether the condition of line 90 held in this run
    total_customers,
    churn_rate,
    avg_monthly_charge,
    long_term_customers,
    top_risk,            \* rows of top_risk, in order
    color                \* the colour chosen for each row of top_risk

vars == <<source, df, fresh, pc, contract_filter, gender_filter, senior_filter,
          top_n, filtered_pre, filtered_df, regenerated, total_customers,
          churn_rate, avg_monthly_charge, long_term_customers, top_risk, color>>

-----------------------------------------------------------------------------
(* Bounds of the model                                                     *)

MaxRows == 2          \* rows of the table, pipeline specification
MaxRanked == 6        \* rows of the table, ranking specification

-----------------------------------------------------------------------------
(* Values                                                                  *)

NaN == -1             \* a missing ChurnProbability entry (isnull)

top_n_min == 5
top_n_max == 20
top_n_default == 10

RED == "#FF4C4C"
ORANGE == "#FFA500"
TEAL == "#4ECDC4"

ContractTypes == {"Month-to-Month", "One year", "Two year"}
AddOnValues == {"Yes", "No", "No internet service"}
TenureValues == {0, 11, 12, 61}

\* the slider positions the model moves to: both ends and the default
SliderChoices == {top_n_min, top_n_default, top_n_max}

NoTable == [loaded |-> FALSE, hasCP |-> FALSE, rows |-> <<>>]
NoFrame == [hasCP |-> FALSE, rows |-> <<>>]
nan == [nan |-> TRUE, num |-> 0, den |-> 0]

\* four customers that differ in every filter dimension and in their score
Customers ==
    { [ContractType |-> "Month-to-Month", Gender |-> "Female", SeniorCitizen |-> 0,
       TenureMonths |-> 5, MonthlyCharges |-> 70, Churn |-> "Yes",
       TechSupport |-> "No", OnlineBackup |-> "No", StreamingTV |-> "No",
       DeviceProtection |-> "No"],
      [ContractType |-> "Month-to-Month", Gender |-> "Male", SeniorCitizen |-> 1,
       TenureMonths |-> 24, MonthlyCharges |-> 80, Churn |-> "No",
       TechSupport |-> "Yes", OnlineBackup |-> "No", StreamingTV |-> "No",
       DeviceProtection |-> "No"],
      [ContractType |-> "One year", Gender |-> "Female", SeniorCitizen |-> 1,
       TenureMonths |-> 72, MonthlyCharges |-> 95, Churn |-> "No",
       TechSupport |-> "Yes", OnlineBackup |-> "Yes", StreamingTV |-> "Yes",
       DeviceProtection |-> "Yes"],
      [ContractType |-> "One year", Gender |-> "Male", SeniorCitizen |-> 0,
       TenureMonths |-> 11, MonthlyCharges |-> 20, Churn |-> "Yes",
       TechSupport |-> "No internet service", OnlineBackup |-> "No internet service",
       StreamingTV |-> "No internet service",
       DeviceProtection |-> "No internet service"] }

\* one customer, for tables that differ only in their loaded scores
OneCustomer ==
    { [ContractType |-> "Month-to-Month", Gender |-> "Female", SeniorCitizen |-> 0,
       TenureMonths |-> 24, MonthlyCharges |-> 70, Churn |-> "Yes",
       TechSupport |-> "No", OnlineBackup |-> "No", StreamingTV |-> "No",
       DeviceProtection |-> "No"] }

\* every combination of the columns the heuristic reads
AllScoreInputs ==
    { [ContractType |-> c, Gender |-> "Female", SeniorCitizen |-> 0,
       TenureMonths |-> t, MonthlyCharges |-> 70, Churn |-> "No",
       TechSupport |-> a[1], OnlineBackup |-> a[2], StreamingTV |-> a[3],
       DeviceProtection |-> a[4]] :
      c \in ContractTypes, t \in TenureValues, a \in [1..4 -> AddOnValues] }

LoadedScores == {NaN, 40, 150}     \* missing, valid, out of range
RankedScores == {39, 40, 70}

\* a row of the table: the customer's columns, the index label read_csv gives
\* it and its ChurnProbability entry
MkRow(i, c, p) ==
    [idx |-> i, ContractType |-> c.ContractType, Gender |-> c.Gender,
     SeniorCitizen |-> c.SeniorCitizen, TenureMonths |-> c.TenureMonths,
     MonthlyCharges |-> c.MonthlyCharges, Churn |-> c.Churn,
     TechSupport |-> c.TechSupport, OnlineBackup |-> c.OnlineBackup,
     StreamingTV |-> c.StreamingTV, DeviceProtection |-> c.DeviceProtection,
     ChurnProbability |-> p]

\* the files of at most maxlen rows, customers from pool, scores from scores;
\* a file without the ChurnProbability column has no entry in any row
Files(pool, scores, maxlen) ==
    UNION { UNION { { [hasCP |-> h, rows |-> [i \in 1..n |-> MkRow(i, b[i], p[i])]] :
                      b \in [1..n -> pool],
                      p \in [1..n -> IF h THEN scores ELSE {NaN}] } :
                    h \in BOOLEAN } :
            n \in 0..maxlen }

-----------------------------------------------------------------------------
(* The script's steps                                                      *)

Range(s) == { s[i] : i \in 1..Len(s) }

Min(a, b) == IF a < b THEN a ELSE b

RECURSIVE SumSeq(_)
SumSeq(s) == IF s = <<>> THEN 0 ELSE Head(s) + SumSeq(Tail(s))

\* st.cache_data: the file is read on the first call only
load_data(cache, file) ==
    IF cache.loaded THEN cache
    ELSE [loaded |-> TRUE, hasCP |-> file.hasCP, rows |-> file.rows]

\* df[col].unique()
unique_ContractType(d) == { r.ContractType : r \in Range(d.rows) }
unique_Gender(d) == { r.Gender : r \in Range(d.rows) }
unique_SeniorCitizen(d) == { r.SeniorCitizen : r \in Range(d.rows) }

\* slip: the three conditions joined by | instead of &
mask_any(r, cf, gf, sf) ==
    \/ r.ContractType \in cf
    \/ r.Gender \in gf
    \/ r.SeniorCitizen \in sf

\* the boolean mask of lines 47-49
mask(r, cf, gf, sf) ==
    /\ r.ContractType \in cf
    /\ r.Gender \in gf
    /\ r.SeniorCitizen \in sf

\* df[mask]: a new frame with the rows where the mask is true, in order
apply_filters(d, cf, gf, sf) ==
    [hasCP |-> d.hasCP,
     rows |-> SelectSeq(d.rows, LAMBDA r : mask(r, cf, gf, sf))]

\* Series.mean(): NaN for an empty series
mean(s) ==
    IF Len(s) = 0 THEN nan
    ELSE [nan |-> FALSE, num |-> SumSeq(s), den |-> Len(s)]

times100(m) ==
    IF m.nan THEN nan ELSE [nan |-> FALSE, num |-> 100 * m.num, den |-> m.den]

kpi_churn_rate(f) ==
    times100(mean([i \in 1..Len(f.rows) |->
                      IF f.rows[i].Churn = "Yes" THEN 1 ELSE 0]))

kpi_avg_monthly_charge(f) ==
    mean([i \in 1..Len(f.rows) |-> f.rows[i].MonthlyCharges])

kpi_long_term_customers(f) ==
    Cardinality({ i \in 1..Len(f.rows) : f.rows[i].TenureMonths > 60 })

\* slip: the condition of line 90 evaluated on df instead of filtered_df
needs_regeneration_df(d, f) ==
    \/ ~d.hasCP
    \/ \E i \in 1..Len(d.rows) : d.rows[i].ChurnProbability = NaN

\* the condition of line 90
needs_regeneration(d, f) ==
    \/ ~f.hasCP
    \/ \E i \in 1..Len(f.rows) : f.rows[i].ChurnProbability = NaN

\* slip: np.clip without the lower limit
clip_upper(x) == IF x > 100 THEN 100 ELSE x

\* np.clip(x, 0, 1)
clip(x) == IF x < 0 THEN 0 ELSE IF x > 100 THEN 100 ELSE x

\* (row[['TechSupport', ...]] == 'Yes').sum(axis=1)
addon_sum(r) ==
    (IF r.TechSupport = "Yes" THEN 1 ELSE 0) +
    (IF r.OnlineBackup = "Yes" THEN 1 ELSE 0) +
    (IF r.StreamingTV = "Yes" THEN 1 ELSE 0) +
    (IF r.DeviceProtection = "Yes" THEN 1 ELSE 0)

\* lines 91-96, for one row
heuristic(r) ==
    clip(40 * (IF r.ContractType = "Month-to-Month" THEN 1 ELSE 0) +
         30 * (IF r.TenureMonths < 12 THEN 1 ELSE 0) -
         5 * addon_sum(r))

\* slip: a fillna-style backfill that scores only the rows with a missing entry
backfill_scores(f) ==
    [hasCP |-> TRUE,
     rows |-> [i \in 1..Len(f.rows) |->
                 IF f.rows[i].ChurnProbability = NaN
                 THEN [f.rows[i] EXCEPT !.ChurnProbability = heuristic(f.rows[i])]
                 ELSE f.rows[i]]]

\* the column assignment of line 91: every row of the frame gets a new entry
assign_scores(f) ==
    [hasCP |-> TRUE,
     rows |-> [i \in 1..Len(f.rows) |->
                 [f.rows[i] EXCEPT !.ChurnProbability = heuristic(f.rows[i])]]]

\* lines 90-96
score_step(d, f) == IF needs_regeneration(d, f) THEN assign_scores(f) ELSE f

\* slip: df[mask] taken as a view, so that the assignment writes through to
\* the cached table
df_written_through(d, f) ==
    [loaded |-> d.loaded, hasCP |-> f.hasCP,
     rows |-> [i \in 1..Len(d.rows) |->
                 IF \E j \in 1..Len(f.rows) : f.rows[j].idx = d.rows[i].idx
                 THEN CHOOSE r \in Range(f.rows) : r.idx = d.rows[i].idx
                 ELSE d.rows[i]]]

\* the cached table after line 91: the frame built by df[mask] is a new
\* object, so the assignment does not reach the cached table
df_after_setitem(d, f) == d

\* slip: ascending=False left out
before_ascending(a, b) == a.ChurnProbability < b.ChurnProbability

\* the order sort_values puts two rows with different keys in
before(a, b) == a.ChurnProbability > b.ChurnProbability

\* sort_values(by='ChurnProbability', ascending=False) with the default
\* kind='quicksort', which is not stable: rows with equal keys may come out
\* in any order.  The set of orders the sort can produce.
RECURSIVE orders(_, _)
orders(rows, S) ==
    IF S = {} THEN { <<>> }
    ELSE UNION { { <<rows[i]>> \o t : t \in orders(rows, S \ {i}) } :
                 i \in { j \in S : \A k \in S : ~before(rows[k], rows[j]) } }

sort_values(f) == orders(f.rows, 1..Len(f.rows))

\* .head(n)
head(s, n) == SubSeq(s, 1, Min(n, Len(s)))

\* slip: strict comparisons at the band limits
pick_color_strict(prob) ==
    IF prob > 70 THEN RED
    ELSE IF prob > 40 THEN ORANGE
    ELSE TEAL

\* lines 109-114
pick_color(prob) ==
    IF prob >= 70 THEN RED
    ELSE IF prob >= 40 THEN ORANGE
    ELSE TEAL

-----------------------------------------------------------------------------
(* Actions                                                                 *)

\* A widget interaction: the widget takes its new value and the script is
\* rerun; the previous run's variables are gone.
Interact ==
    /\ pc = "idle"
    /\ pc' = "rerun"
    /\ filtered_pre' = NoFrame
    /\ filtered_df' = NoFrame
    /\ regenerated' = FALSE
    /\ total_customers' = 0
    /\ churn_rate' = nan
    /\ avg_monthly_charge' = nan
    /\ long_term_customers' = 0
    /\ top_risk' = <<>>
    /\ color' = <<>>
    /\ UNCHANGED <<source, df, fresh>>

SetContractFilter(S) ==
    /\ Interact
    /\ S # contract_filter
    /\ contract_filter' = S
    /\ UNCHANGED <<gender_filter, senior_filter, top_n>>

SetGenderFilter(S) ==
    /\ Interact
    /\ S # gender_filter
    /\ gender_filter' = S
    /\ UNCHANGED <<contract_filter, senior_filter, top_n>>

SetSeniorFilter(S) ==
    /\ Interact
    /\ S # senior_filter
    /\ senior_filter' = S
    /\ UNCHANGED <<contract_filter, gender_filter, top_n>>

SetTopN(n) ==
    /\ Interact
    /\ n \in top_n_min..top_n_max
    /\ n # top_n
    /\ top_n' = n
    /\ UNCHANGED <<contract_filter, gender_filter, senior_filter>>

\* One run of the script, lines 28-129.
Run ==
    /\ pc = "rerun"
    /\ LET d  == load_data(df, source)
           cf == IF fresh THEN unique_ContractType(d) ELSE contract_filter
           gf == IF fresh THEN unique_Gender(d) ELSE gender_filter
           sf == IF fresh THEN unique_SeniorCitizen(d) ELSE senior_filter
           n  == IF fresh THEN top_n_default ELSE top_n
           f0 == apply_filters(d, cf, gf, sf)
           f1 == score_step(d, f0)
       IN  /\ contract_filter' = cf
           /\ gender_filter' = gf
           /\ senior_filter' = sf
           /\ top_n' = n
           /\ filtered_pre' = f0
           /\ total_customers' = Len(f0.rows)
           /\ churn_rate' = kpi_churn_rate(f0)
           /\ avg_monthly_charge' = kpi_avg_monthly_charge(f0)
           /\ long_term_customers' = kpi_long_term_customers(f0)
           /\ regenerated' = needs_regeneration(d, f0)
           /\ filtered_df' = f1
           /\ df' = df_after_setitem(d, f1)
           /\ \E sorted \in sort_values(f1) :
                /\ top_risk' = head(sorted, n)
                /\ color' = [i \in 1..Len(head(sorted, n)) |->
                               pick_color(head(sorted, n)[i].ChurnProbability)]
    /\ fresh' = FALSE
    /\ pc' = "idle"
    /\ UNCHANGED source

Next ==
    \/ Run
    \/ \E S \in SUBSET unique_ContractType(df) : SetContractFilter(S)
    \/ \E S \in SUBSET unique_Gender(df) : SetGenderFilter(S)
    \/ \E S \in SUBSET unique_SeniorCitizen(df) : SetSeniorFilter(S)
    \/ \E n \in SliderChoices : SetTopN(n)

\* a new session on a file: nothing cached, no widget created, first run pending
Start(files) ==
    /\ source \in files
    /\ df = NoTable
    /\ fresh = TRUE
    /\ pc = "rerun"
    /\ contract_filter = {}
    /\ gender_filter = {}
    /\ senior_filter = {}
    /\ top_n = top_n_default
    /\ filtered_pre = NoFrame
    /\ filtered_df = NoFrame
    /\ regenerated = FALSE
    /\ total_customers = 0
    /\ churn_rate = nan
    /\ avg_monthly_charge = nan
    /\ long_term_customers = 0
    /\ top_risk = <<>>
    /\ color = <<>>

\* the pipeline on small tables of different customers
Init == Start(Files(Customers, LoadedScores, MaxRows))
Spec == Init /\ [][Next]_vars

\* the heuristic score and the bands on every combination of its inputs
InitScore == Start(Files(AllScoreInputs, {NaN}, 1))
SpecScore == InitScore /\ [][Next]_vars

\* the ranking on tables longer than the smallest N, with tied scores
InitTop == Start(Files(OneCustomer, RankedScores, MaxRanked))
SpecTop == InitTop /\ [][Next]_vars

-----------------------------------------------------------------------------
(* Properties                                                              *)

Done == pc = "idle"

Selected(r) ==
    /\ r.ContractType \in contract_filter
    /\ r.Gender \in gender_filter
    /\ r.SeniorCitizen \in senior_filter

HasMissing(rows) == \E i \in 1..Len(rows) : rows[i].ChurnProbability = NaN

SameSourceColumns(a, b) ==
    [a EXCEPT !.ChurnProbability = 0] = [b EXCEPT !.ChurnProbability = 0]

\* the score the formula of section 4.4 gives a row, in hundredths
AddOnColumns == {"TechSupport", "OnlineBackup", "StreamingTV", "DeviceProtection"}
FormulaRaw(r) ==
    (IF r.ContractType = "Month-to-Month" THEN 40 ELSE 0) +
    (IF r.TenureMonths < 12 THEN 30 ELSE 0) -
    5 * Cardinality({ c \in AddOnColumns : r[c] = "Yes" })
FormulaScore(r) ==
    IF FormulaRaw(r) < 0 THEN 0
    ELSE IF FormulaRaw(r) > 100 THEN 100 ELSE FormulaRaw(r)

\* C1: after a run the filtered subset holds exactly the rows of the full
\* table whose ContractType, Gender and SeniorCitizen are all in the selected
\* sets, each once; an empty selection in any dimension gives an empty
\* subset, and the subset never has more rows than the table.
C1_FilterExact ==
    Done =>
      /\ \A i \in 1..Len(df.rows) :
            (\E j \in 1..Len(filtered_pre.rows) : filtered_pre.rows[j] = df.rows[i])
               <=> Selected(df.rows[i])
      /\ \A j \in 1..Len(filtered_pre.rows) : filtered_pre.rows[j] \in Range(df.rows)
      /\ \A j, k \in 1..Len(filtered_pre.rows) :
            j < k => filtered_pre.rows[j].idx < filtered_pre.rows[k].idx
      /\ ({} \in {contract_filter, gender_filter, senior_filter}
            => Len(filtered_pre.rows) = 0)
      /\ Len(filtered_pre.rows) <= Len(df.rows)
      /\ total_customers = Len(filtered_pre.rows)

\* a row is kept while another row, which matches in one dimension and not in
\* another, is left out
C1_Witness ==
    /\ Done
    /\ Len(filtered_pre.rows) = 1
    /\ \E i \in 1..Len(df.rows) :
          /\ df.rows[i].ContractType \in contract_filter
          /\ df.rows[i].Gender \notin gender_filter
          /\ df.rows[i] \notin Range(filtered_pre.rows)

\* C2, as stated: whenever the ChurnProbability column is absent from the
\* full table or has a missing entry in any of its rows, every row of the
\* working subset holds the heuristic score, whatever the filters are.
C2_TableWideTrigger ==
    (Done /\ (~df.hasCP \/ HasMissing(df.rows)))
      => \A j \in 1..Len(filtered_df.rows) :
            filtered_df.rows[j].ChurnProbability = FormulaScore(filtered_df.rows[j])

\* C2, amended: the trigger is evaluated over the filtered subset.  When the
\* column is absent or a row of the subset has a missing entry, every row of
\* the subset holds the heuristic score; otherwise, also when a row left out
\* by the filters has a missing entry, the subset keeps its loaded scores.
C2_SubsetTrigger ==
    Done =>
      IF ~filtered_pre.hasCP \/ HasMissing(filtered_pre.rows)
      THEN /\ regenerated
           /\ \A j \in 1..Len(filtered_df.rows) :
                 filtered_df.rows[j].ChurnProbability
                    = FormulaScore(filtered_df.rows[j])
      ELSE /\ ~regenerated
           /\ filtered_df = filtered_pre

\* the missing entry is in a row the filters leave out, and the subset keeps
\* a loaded score that is not the heuristic one
C2_Witness ==
    /\ Done
    /\ \E i \in 1..Len(df.rows) :
          /\ df.rows[i].ChurnProbability = NaN
          /\ ~Selected(df.rows[i])
    /\ \E j \in 1..Len(filtered_df.rows) :
          /\ filtered_df.rows[j].ChurnProbability # NaN
          /\ filtered_df.rows[j].ChurnProbability
                # FormulaScore(filtered_df.rows[j])

\* C3, as stated: when the subset is empty the KPIs are total_customers = 0,
\* a churn_rate that is a number and an avg_monthly_charge that is a number
\* (or null), not the NaN of a mean over no rows.
C3_EmptyKpisDefined ==
    (Done /\ Len(filtered_pre.rows) = 0)
      => /\ total_customers = 0
         /\ ~churn_rate.nan
         /\ ~avg_monthly_charge.nan

\* C4: the Top-At-Risk list has exactly min(N, |subset|) rows of the subset,
\* for N in 5..20, in non-increasing order of ChurnProbability, and no row
\* left out has a strictly higher ChurnProbability than a row of the list.
C4_TopN ==
    Done =>
      /\ top_n \in 5..20
      /\ Len(top_risk) = Min(top_n, Len(filtered_df.rows))
      /\ \A i \in 1..Len(top_risk) : top_risk[i] \in Range(filtered_df.rows)
      /\ \A i, j \in 1..Len(top_risk) : i < j => top_risk[i].idx # top_risk[j].idx
      /\ \A i, j \in 1..Len(top_risk) :
            i < j => top_risk[i].ChurnProbability >= top_risk[j].ChurnProbability
      /\ \A r \in Range(filtered_df.rows) \ Range(top_risk) :
            \A i \in 1..Len(top_risk) :
               r.ChurnProbability <= top_risk[i].ChurnProbability

\* the list is cut at N, holds different scores, and a lower row is left out
C4_Witness ==
    /\ Done
    /\ Len(filtered_df.rows) > top_n
    /\ Len(top_risk) = top_n
    /\ top_risk[1].ChurnProbability > top_risk[top_n].ChurnProbability
    /\ \E r \in Range(filtered_df.rows) \ Range(top_risk) :
          r.ChurnProbability < top_risk[top_n].ChurnProbability

\* C5, as stated: rows of the list with equal ChurnProbability are in their
\* original row order, and of the rows tied at the N-th position the earlier
\* ones are kept.
C5_StableTies ==
    Done =>
      /\ \A i, j \in 1..Len(top_risk) :
            (i < j /\ top_risk[i].ChurnProbability = top_risk[j].ChurnProbability)
               => top_risk[i].idx < top_risk[j].idx
      /\ \A r \in Range(filtered_df.rows) \ Range(top_risk) :
            \A i \in 1..Len(top_risk) :
               r.ChurnProbability = top_risk[i].ChurnProbability
                  => top_risk[i].idx < r.idx

C7_Bands ==
    Done =>
      /\ Len(color) = Len(top_risk)
      /\ \A i \in 1..Len(top_risk) :
            LET p == top_risk[i].ChurnProbability IN
              /\ color[i] \in {RED, ORANGE, TEAL}
              /\ color[i] = RED <=> p >= 70
              /\ color[i] = ORANGE <=> (40 <= p /\ p < 70)
              /\ color[i] = TEAL <=> p < 40

\* a row exactly at the limit 0.7 is in the list
C7_Witness ==
    /\ Done
    /\ \E i \in 1..Len(top_risk) :
          top_risk[i].ChurnProbability = 70 /\ color[i] = RED

\* C8: the cached table always equals the file that was loaded, with or
\* without its ChurnProbability column, and every row of the scored subset
\* agrees with the cached row of the same index on all other columns.
C8_CacheReadOnly ==
    /\ df.loaded => (df.hasCP = source.hasCP /\ df.rows = source.rows)
    /\ \A j \in 1..Len(filtered_df.rows) :
          \E i \in 1..Len(df.rows) :
             /\ df.rows[i].idx = filtered_df.rows[j].idx
             /\ SameSourceColumns(df.rows[i], filtered_df.rows[j])

\* after a filter change and a slider move, a run has regenerated the scores
\* of a subset whose cached rows hold other entries
C8_Witness ==
    /\ Done
    /\ regenerated
    /\ top_n # top_n_default
    /\ contract_filter # unique_ContractType(df)
    /\ \E j \in 1..Len(filtered_df.rows) :
          \E i \in 1..Len(df.rows) :
             /\ df.rows[i].idx = filtered_df.rows[j].idx
             /\ df.rows[i].ChurnProbability # filtered_df.rows[j].ChurnProbability

\* C9: when a missing entry triggers the regeneration, every row of the
\* table being scored gets the heuristic score, the rows that held an entry
\* included.
C9_ColumnWide ==
    (Done /\ filtered_pre.hasCP /\ HasMissing(filtered_pre.rows)) =>
      /\ Len(filtered_df.rows) = Len(filtered_pre.rows)
      /\ \A j \in 1..Len(filtered_pre.rows) :
            /\ filtered_df.rows[j].idx = filtered_pre.rows[j].idx
            /\ filtered_df.rows[j].ChurnProbability
                  = FormulaScore(filtered_pre.rows[j])

\* one entry of the subset is missing and another entry, which is not the
\* heuristic score of its row, has been overwritten
C9_Witness ==
    /\ Done
    /\ filtered_pre.hasCP
    /\ HasMissing(filtered_pre.rows)
    /\ \E j \in 1..Len(filtered_pre.rows) :
          /\ filtered_pre.rows[j].ChurnProbability # NaN
          /\ filtered_pre.rows[j].ChurnProbability
                # FormulaScore(filtered_pre.rows[j])
          /\ filtered_df.rows[j].ChurnProbability
                = FormulaScore(filtered_pre.rows[j])

\* C10, as stated: after the scoring step every row of the working subset
\* has a ChurnProbability that is present and in [0,1], an invalid loaded
\* column having been replaced by generated scores.
C10_ScoresValid ==
    Done =>
      \A j \in 1..Len(filtered_df.rows) :
         /\ filtered_df.rows[j].ChurnProbability # NaN
         /\ filtered_df.rows[j].ChurnProbability >= 0
         /\ filtered_df.rows[j].ChurnProbability <= 100

=============================================================================
